---- MODULE Spec2Model ----
(***************************************************************************)
(* binvox_rw.py: reading and writing of binvox voxel files, and the dense  *)
(* / sparse conversions.  The module is Python 2 code over numpy.          *)
(*                                                                         *)
(* A numpy array is modelled by its dtype, its shape and its elements in   *)
(* C (row-major) order; booleans are the integers 0 and 1.  A file is the  *)
(* sequence of its text lines followed by its binary payload.              *)
(***************************************************************************)
EXTENDS Integers, Sequences, FiniteSets, TLC

(***************************************************************************)
(* Bounds of the model.                                                    *)
(***************************************************************************)
\* small grids: every boolean grid with at most MaxCells cells is an input
MaxCells == 4
\* long grids: a first run of up to MaxN equal cells
MaxN == 520
\* long grids: a second run of up to MaxTail cells of the other value
MaxTail == 2
\* input files: dims with at most MaxFileCells cells, a payload of at most
\* MaxPairs (value, count) pairs whose counts sum to at most MaxFileCells + 1
MaxFileCells == 2
MaxPairs == 2

(***************************************************************************)
(* numpy arrays.                                                           *)
(***************************************************************************)
Min(a, b) == IF a < b THEN a ELSE b

RECURSIVE Prod(_)
\* np.prod of a list of integers
Prod(s) == IF s = <<>> THEN 1 ELSE Head(s) * Prod(Tail(s))

RECURSIVE Sum(_)
Sum(s) == IF s = <<>> THEN 0 ELSE Head(s) + Sum(Tail(s))

NdArray(dtype, shape, flat) == [dtype |-> dtype, shape |-> shape, flat |-> flat]

Ndim(a) == Len(a.shape)

\* a.flatten(): the elements in C order
Flatten(a) == a.flat

\* a.reshape(shape): same elements in C order, new extents
Reshape(a, shape) == NdArray(a.dtype, shape, a.flat)

\* np.ascontiguousarray(np.transpose(a, (0, 2, 1))) of a 3-dimensional a:
\* out[i][k][j] = a[i][j][k]
Transpose021(a) ==
    LET s1 == a.shape[1]
        s2 == a.shape[2]
        s3 == a.shape[3]
    IN  NdArray(a.dtype, <<s1, s3, s2>>,
            [p \in 1..Len(a.flat) |->
                LET q == p - 1
                    i == q \div (s3 * s2)
                    r == q % (s3 * s2)
                    k == r \div s2
                    j == r % s2
                IN  a.flat[(i * s2 + j) * s3 + k + 1]])

\* a[i][j][k] of a 3-dimensional array (0-based indices)
At(a, i, j, k) == a.flat[(i * a.shape[2] + j) * a.shape[3] + k + 1]

(***************************************************************************)
(* Text of numbers: str(), int() and float() of Python 2.                  *)
(* A text is a sequence of one-character strings.                          *)
(***************************************************************************)
DigitChar == <<"0", "1", "2", "3", "4", "5", "6", "7", "8", "9">>

CharDigit(c) == CHOOSE d \in 0..9 : DigitChar[d + 1] = c

RECURSIVE IntStr(_)
\* str(n) of a non-negative int
IntStr(n) == IF n < 10 THEN <<DigitChar[n + 1]>>
             ELSE Append(IntStr(n \div 10), DigitChar[(n % 10) + 1])

RECURSIVE StrInt(_)
\* int(s) of a text of digits
StrInt(s) == IF Len(s) = 1 THEN CharDigit(s[1])
             ELSE 10 * StrInt(SubSeq(s, 1, Len(s) - 1)) + CharDigit(s[Len(s)])

\* A float is its shortest decimal representation: sign, integer part and
\* the digits after the point (no trailing zero).
Float(neg, ip, fd) == [neg |-> neg, ip |-> ip, fd |-> fd]

RECURSIVE StripZeros(_)
StripZeros(ds) == IF ds # <<>> /\ ds[Len(ds)] = 0
                  THEN StripZeros(SubSeq(ds, 1, Len(ds) - 1)) ELSE ds

RECURSIVE LeadingZeros(_)
LeadingZeros(ds) == IF ds # <<>> /\ Head(ds) = 0
                    THEN 1 + LeadingZeros(Tail(ds)) ELSE 0

RECURSIVE IncDigits(_)
\* add one in the last place: [carry, digits]
IncDigits(ds) ==
    IF ds = <<>> THEN [carry |-> 1, digits |-> <<>>]
    ELSE IF ds[Len(ds)] < 9
         THEN [carry |-> 0, digits |-> [ds EXCEPT ![Len(ds)] = @ + 1]]
         ELSE LET r == IncDigits(SubSeq(ds, 1, Len(ds) - 1))
              IN  [carry |-> r.carry, digits |-> Append(r.digits, 0)]

\* significant digits str() of a Python 2 float keeps ('%.12g')
StrPrecision == 12

\* the float rounded to StrPrecision significant digits
RoundFloat(f) ==
    LET keep == IF f.ip > 0 THEN StrPrecision - Len(IntStr(f.ip))
                ELSE LeadingZeros(f.fd) + StrPrecision
    IN  IF Len(f.fd) <= keep THEN f
        ELSE LET kept == SubSeq(f.fd, 1, keep)
                 r == IF f.fd[keep + 1] >= 5 THEN IncDigits(kept)
                      ELSE [carry |-> 0, digits |-> kept]
             IN  Float(f.neg, f.ip + r.carry, StripZeros(r.digits))

\* str(f) of a float with 1e-4 <= |f| < 1e12, or of 0.0
FloatStr(f) ==
    LET g == RoundFloat(f)
    IN  (IF g.neg THEN <<"-">> ELSE <<>>) \o IntStr(g.ip) \o <<".">>
        \o (IF g.fd = <<>> THEN <<"0">> ELSE [i \in 1..Len(g.fd) |-> DigitChar[g.fd[i] + 1]])

\* float(s) of a text in positional notation
StrFloat(s) ==
    LET neg == s[1] = "-"
        t == IF neg THEN Tail(s) ELSE s
        dot == CHOOSE i \in 1..Len(t) : t[i] = "."
        frac == SubSeq(t, dot + 1, Len(t))
    IN  Float(neg, StrInt(SubSeq(t, 1, dot - 1)),
              StripZeros([i \in 1..Len(frac) |-> CharDigit(frac[i])]))

(***************************************************************************)
(* Voxels objects and files.                                               *)
(***************************************************************************)
AxisOrders == {"xzy", "xyz"}

\* Voxels.__init__
Voxels(data, dims, translate, scale, axis_order) ==
    [data |-> data, dims |-> dims, translate |-> translate, scale |-> scale,
     axis_order |-> axis_order]

\* no object (None, or nothing returned because the call raised)
NoModel == [none |-> TRUE]
NoArray == [none |-> TRUE]

IsModel(v) == "data" \in DOMAIN v
IsArray(a) == "flat" \in DOMAIN a

\* a text line: its first word and the words after it (line.split(' '))
Line(key, vals) == [key |-> key, vals |-> vals]

File(lines, payload) == [lines |-> lines, payload |-> payload]
EmptyFile == File(<<>>, <<>>)

\* the five header lines write emits
HeaderLines(dims, translate, scale) ==
    << Line("#binvox", <<IntStr(1)>>),
       Line("dim", [i \in 1..Len(dims) |-> IntStr(dims[i])]),
       Line("translate", [i \in 1..Len(translate) |-> FloatStr(translate[i])]),
       Line("scale", <<FloatStr(scale)>>),
       Line("data", <<>>) >>

(***************************************************************************)
(* write: the run length encoder.                                          *)
(***************************************************************************)
\* the largest count one payload byte holds
MaxCount == 255

\* RleStep with the flush one count early
RleStep_EarlyFlush(s, c) ==
    IF c = s.state
    THEN IF s.ctr + 1 = MaxCount - 1
         THEN [state |-> s.state, ctr |-> 0, out |-> s.out \o <<s.state, s.ctr + 1>>]
         ELSE [state |-> s.state, ctr |-> s.ctr + 1, out |-> s.out]
    ELSE [state |-> c, ctr |-> 1, out |-> s.out \o <<s.state, s.ctr>>]

\* one iteration of `for c in voxels_flat`, on the loop state s
RleStep(s, c) ==
    IF c = s.state
    THEN IF s.ctr + 1 = MaxCount
         THEN [state |-> s.state, ctr |-> 0, out |-> s.out \o <<s.state, s.ctr + 1>>]
         ELSE [state |-> s.state, ctr |-> s.ctr + 1, out |-> s.out]
    ELSE [state |-> c, ctr |-> 1, out |-> s.out \o <<s.state, s.ctr>>]

RECURSIVE RleLoop(_, _, _, _)
\* the loop `for c in voxels_flat` over the elements lo..hi, in order, from
\* the loop state s.  The range is halved and the first half is evaluated
\* before the second (the test on t.ctr, never true, does that) so that the
\* evaluation stays shallow.
RleLoop(voxels_flat, lo, hi, s) ==
    IF lo > hi THEN s
    ELSE IF lo = hi THEN RleStep(s, voxels_flat[lo])
    ELSE LET mid == (lo + hi) \div 2
             t == RleLoop(voxels_flat, lo, mid, s)
         IN  IF t.ctr < 0 THEN t ELSE RleLoop(voxels_flat, mid + 1, hi, t)

\* the payload bytes write emits for a non-empty voxels_flat
RleEncode(voxels_flat) ==
    LET s == RleLoop(voxels_flat, 1, Len(voxels_flat), [state |-> voxels_flat[1], ctr |-> 0, out |-> <<>>])
    IN  IF s.ctr > 0 THEN s.out \o <<s.state, s.ctr>> ELSE s.out

\* write with the header emitted before the test on data.ndim
write_HeaderFirst(voxel_model, fp) ==
    LET hdr == File(fp.lines \o HeaderLines(voxel_model.dims,
                        voxel_model.translate, voxel_model.scale), fp.payload)
        voxels_flat == IF voxel_model.axis_order = "xzy"
                       THEN Flatten(voxel_model.data)
                       ELSE Flatten(Transpose021(voxel_model.data))
    IN  IF Ndim(voxel_model.data) = 2
        THEN [fp |-> hdr, exc |-> "ValueError"]
        ELSE IF Len(voxels_flat) = 0
        THEN [fp |-> hdr, exc |-> "IndexError"]
        ELSE [fp |-> File(hdr.lines, hdr.payload \o RleEncode(voxels_flat)),
              exc |-> "none"]

\* write(voxel_model, fp): the sink afterwards and the exception raised
write(voxel_model, fp) ==
    IF Ndim(voxel_model.data) = 2
    THEN [fp |-> fp, exc |-> "ValueError"]
    ELSE LET hdr == File(fp.lines \o HeaderLines(voxel_model.dims,
                             voxel_model.translate, voxel_model.scale), fp.payload)
             voxels_flat == IF voxel_model.axis_order = "xzy"
                            THEN Flatten(voxel_model.data)
                            ELSE Flatten(Transpose021(voxel_model.data))
         IN  IF Len(voxels_flat) = 0
             THEN [fp |-> hdr, exc |-> "IndexError"]
             ELSE [fp |-> File(hdr.lines, hdr.payload \o RleEncode(voxels_flat)),
                   exc |-> "none"]

(***************************************************************************)
(* read_header, read and read_coords.                                      *)
(***************************************************************************)
\* fp.readline(): the i-th line, the empty line at the end of the file
ReadLine(fp, i) == IF i <= Len(fp.lines) THEN fp.lines[i] ELSE Line("", <<>>)

\* read_header(fp): dims, translate, scale, or the exception raised
read_header(fp) ==
    LET line == ReadLine(fp, 1)
        dimline == ReadLine(fp, 2)
        trline == ReadLine(fp, 3)
        scline == ReadLine(fp, 4)
    IN  IF line.key # "#binvox"
        THEN [exc |-> "IOError", dims |-> <<>>, translate |-> <<>>, scale |-> <<>>]
        ELSE IF scline.vals = <<>>
        THEN [exc |-> "IndexError", dims |-> <<>>, translate |-> <<>>, scale |-> <<>>]
        ELSE [exc |-> "none",
              dims |-> [i \in 1..Len(dimline.vals) |-> StrInt(dimline.vals[i])],
              translate |-> [i \in 1..Len(trline.vals) |-> StrFloat(trline.vals[i])],
              scale |-> StrFloat(scline.vals[1])]

\* bool(value) of a payload byte
Truth(value) == IF value # 0 THEN 1 ELSE 0

\* data[index:end_index] = value, on a buffer of Len(data) cells
FillSlice(data, index, end_index, value) ==
    [p \in 1..Len(data) |->
        IF index < p /\ p <= end_index THEN Truth(value) ELSE data[p]]

RECURSIVE ReadLoop_SkipLast(_, _, _, _)
\* ReadLoop with the loop test `i + 1 < len(raw_data)`: a last byte with no
\* count after it is skipped
ReadLoop_SkipLast(raw_data, i, index, data) ==
    IF i + 1 > Len(raw_data) THEN [exc |-> "none", data |-> data]
    ELSE LET value == raw_data[i]
             count == raw_data[i + 1]
             end_index == index + count
         IN  ReadLoop_SkipLast(raw_data, i + 2, end_index,
                               FillSlice(data, index, end_index, value))

RECURSIVE ReadLoop(_, _, _, _)
\* the while loop of read from byte i (1-based) on: the buffer, or IndexError
\* when raw_data[i+1] is past the end
ReadLoop(raw_data, i, index, data) ==
    IF i > Len(raw_data) THEN [exc |-> "none", data |-> data]
    ELSE IF i + 1 > Len(raw_data) THEN [exc |-> "IndexError", data |-> data]
    ELSE LET value == raw_data[i]
             count == raw_data[i + 1]
             end_index == index + count
         IN  ReadLoop(raw_data, i + 2, end_index,
                      FillSlice(data, index, end_index, value))

\* read(fp, fix_coords), with `empty` the content np.empty hands out
read(fp, fix_coords, empty) ==
    LET h == read_header(fp)
    IN  IF h.exc # "none" THEN [ret |-> NoModel, exc |-> h.exc]
        ELSE LET r == ReadLoop(fp.payload, 1, 0, empty)
                 data == Reshape(NdArray("bool", <<Len(empty)>>, r.data), h.dims)
             IN  IF r.exc # "none" THEN [ret |-> NoModel, exc |-> r.exc]
                 ELSE IF fix_coords
                 THEN [ret |-> Voxels(Transpose021(data), h.dims, h.translate,
                                      h.scale, "xyz"), exc |-> "none"]
                 ELSE [ret |-> Voxels(data, h.dims, h.translate, h.scale, "xzy"),
                       exc |-> "none"]

RECURSIVE CoordsLoop(_, _, _, _)
\* the while loop of read_coords: the list nz_voxels, or IndexError
CoordsLoop(raw_data, i, index, nz_voxels) ==
    IF i > Len(raw_data) THEN [exc |-> "none", nz |-> nz_voxels]
    ELSE IF i + 1 > Len(raw_data) THEN [exc |-> "IndexError", nz |-> nz_voxels]
    ELSE LET value == raw_data[i]
             count == raw_data[i + 1]
             end_index == index + count
         IN  CoordsLoop(raw_data, i + 2, end_index,
                 IF value # 0
                 THEN nz_voxels \o [k \in 1..count |-> index + k - 1]
                 ELSE nz_voxels)

\* integer / and % of numpy (0 on a zero divisor)
NpDiv(a, b) == IF b = 0 THEN 0 ELSE a \div b
NpMod(a, b) == IF b = 0 THEN 0 ELSE a % b

\* read_coords(fp, fix_coords)
read_coords(fp, fix_coords) ==
    LET h == read_header(fp)
    IN  IF h.exc # "none" THEN [ret |-> NoModel, exc |-> h.exc]
        ELSE LET r == CoordsLoop(fp.payload, 1, 0, <<>>)
                 nz == r.nz
                 n == Len(nz)
                 wh == h.dims[1] * h.dims[2]
                 x == [k \in 1..n |-> NpDiv(nz[k], wh)]
                 zwpy == [k \in 1..n |-> NpMod(nz[k], wh)]
                 z == [k \in 1..n |-> NpDiv(zwpy[k], h.dims[1])]
                 y == [k \in 1..n |-> NpMod(zwpy[k], h.dims[1])]
                 dtype == IF n = 0 THEN "float64" ELSE "int64"
             IN  IF r.exc # "none" THEN [ret |-> NoModel, exc |-> r.exc]
                 ELSE IF fix_coords
                 THEN [ret |-> Voxels(NdArray(dtype, <<3, n>>, x \o y \o z), h.dims,
                                      h.translate, h.scale, "xyz"), exc |-> "none"]
                 ELSE [ret |-> Voxels(NdArray(dtype, <<3, n>>, x \o z \o y), h.dims,
                                      h.translate, h.scale, "xzy"), exc |-> "none"]

(***************************************************************************)
(* Voxels.clone                                                            *)
(***************************************************************************)
\* a call Voxels(*args): __init__ takes data, dims, translate, scale, axis_order
Construct(args) ==
    IF Len(args) # 5 THEN [ret |-> NoModel, exc |-> "TypeError"]
    ELSE [ret |-> Voxels(args[1], args[2], args[3], args[4], args[5]), exc |-> "none"]

\* self.clone(): copies of data, dims and translate, then Voxels(data, dims,
\* translate, scale)
clone(self) ==
    Construct(<<self.data, self.dims, self.translate, self.scale>>)

(***************************************************************************)
(* dense_to_sparse and sparse_to_dense                                     *)
(***************************************************************************)
RECURSIVE NonZero(_, _, _)
\* the positions (1-based, ascending) of the nonzero elements among lo..hi
NonZero(flat, lo, hi) ==
    IF lo > hi THEN <<>>
    ELSE IF lo = hi THEN (IF flat[lo] # 0 THEN <<lo>> ELSE <<>>)
    ELSE LET mid == (lo + hi) \div 2
         IN  NonZero(flat, lo, mid) \o NonZero(flat, mid + 1, hi)

\* dense_to_sparse(voxel_data)
dense_to_sparse(voxel_data) ==
    IF Ndim(voxel_data) # 3 THEN [ret |-> NoArray, exc |-> "ValueError"]
    ELSE LET nz == NonZero(voxel_data.flat, 1, Len(voxel_data.flat))
             n == Len(nz)
             s2 == voxel_data.shape[2]
             s3 == voxel_data.shape[3]
             is == [k \in 1..n |-> (nz[k] - 1) \div (s2 * s3)]
             js == [k \in 1..n |-> ((nz[k] - 1) % (s2 * s3)) \div s3]
             ks == [k \in 1..n |-> (nz[k] - 1) % s3]
         IN  [ret |-> NdArray("int64", <<3, n>>, is \o js \o ks), exc |-> "none"]

\* column c (1-based) of a 3 x N array
Column(a, c) == LET n == a.shape[2] IN <<a.flat[c], a.flat[n + c], a.flat[2 * n + c]>>

\* sparse_to_dense with the test `xyz <= 0` for `xyz < 0`
sparse_to_dense_DropZero(voxel_data, dims, scalar) ==
    IF Ndim(voxel_data) # 2 \/ voxel_data.shape[1] # 3
    THEN [ret |-> NoArray, exc |-> "ValueError"]
    ELSE LET d == IF scalar THEN <<dims[1], dims[1], dims[1]>> ELSE dims
             n == voxel_data.shape[2]
             valid_ix == {c \in 1..n : \A r \in 1..3 :
                             /\ Column(voxel_data, c)[r] > 0
                             /\ Column(voxel_data, c)[r] < d[r]}
             xyz == {Column(voxel_data, c) : c \in valid_ix}
         IN  [ret |-> NdArray("bool", d,
                        [p \in 1..Prod(d) |->
                            LET q == p - 1
                                i == q \div (d[2] * d[3])
                                j == (q % (d[2] * d[3])) \div d[3]
                                k == q % d[3]
                            IN  IF <<i, j, k>> \in xyz THEN 1 ELSE 0]),
              exc |-> "none"]

\* sparse_to_dense(voxel_data, dims); scalar: dims is the number dims[1]
sparse_to_dense(voxel_data, dims, scalar) ==
    IF Ndim(voxel_data) # 2 \/ voxel_data.shape[1] # 3
    THEN [ret |-> NoArray, exc |-> "ValueError"]
    ELSE LET d == IF scalar THEN <<dims[1], dims[1], dims[1]>> ELSE dims
             n == voxel_data.shape[2]
             valid_ix == {c \in 1..n : \A r \in 1..3 :
                             /\ Column(voxel_data, c)[r] >= 0
                             /\ Column(voxel_data, c)[r] < d[r]}
             xyz == {Column(voxel_data, c) : c \in valid_ix}
         IN  [ret |-> NdArray("bool", d,
                        [p \in 1..Prod(d) |->
                            LET q == p - 1
                                i == q \div (d[2] * d[3])
                                j == (q % (d[2] * d[3])) \div d[3]
                                k == q % d[3]
                            IN  IF <<i, j, k>> \in xyz THEN 1 ELSE 0]),
              exc |-> "none"]

(***************************************************************************)
(* Inputs.                                                                 *)
(***************************************************************************)
F0 == Float(FALSE, 0, <<>>)                       \* 0.0
F1 == Float(FALSE, 1, <<>>)                       \* 1.0
FHalf == Float(TRUE, 0, <<5>>)                    \* -0.5
FChair == Float(FALSE, 41, <<1, 3, 3>>)           \* 41.133
FSum == Float(FALSE, 0, <<3>> \o [i \in 1..15 |-> 0] \o <<4>>)   \* 0.1 + 0.2
FNear3 == Float(FALSE, 2, [i \in 1..15 |-> 9] \o <<6>>)          \* 2.9999999999999996

Meta0 == [translate |-> <<F0, F0, F0>>, scale |-> F1]
Metas == { Meta0,
           [translate |-> <<FHalf, F0, FChair>>, scale |-> FChair],
           [translate |-> <<F0, FNear3, F0>>, scale |-> FSum] }

\* dims of the small grids: at most MaxCells cells; empty grids of extents 0, 1
SmallDims == {d \in (0..MaxCells) \X (0..MaxCells) \X (0..MaxCells) :
                 /\ Prod(d) <= MaxCells
                 /\ Prod(d) = 0 => \A i \in 1..3 : d[i] <= 1}

\* every dense model over the small dims, with data of extents dims; the
\* other translate and scale values go with the one-cell grids
SmallModels ==
    UNION { { Voxels(NdArray("bool", d, g), d, mt.translate, mt.scale, ao) :
                g \in [1..Prod(d) -> {0, 1}],
                mt \in IF d = <<1, 1, 1>> THEN Metas ELSE {Meta0},
                ao \in AxisOrders } :
            d \in SmallDims }

\* a cells equal to v, then b cells equal to 1 - v
TwoRuns(v, a, b) == [p \in 1..(a + b) |-> IF p <= a THEN v ELSE 1 - v]

\* whether a is next to a multiple of MaxCount
NearFlush(a) == \E k \in {a - 1, a, a + 1} : k > 0 /\ k % MaxCount = 0

\* dense models of one run of up to MaxN cells, and of two runs where the
\* first one ends next to a multiple of MaxCount
LongModels ==
    { Voxels(NdArray("bool", <<1, 1, ab[1] + ab[2]>>, TwoRuns(v, ab[1], ab[2])),
             <<1, 1, ab[1] + ab[2]>>, Meta0.translate, Meta0.scale, ao) :
        v \in {0, 1}, ao \in AxisOrders,
        ab \in {x \in (1..MaxN) \X (0..MaxTail) : x[2] = 0 \/ NearFlush(x[1])} }

RECURSIVE Payloads(_, _)
\* the payloads of at most n pairs (value, count), count >= 1, whose counts
\* sum to at most t
Payloads(n, t) ==
    IF n = 0 THEN {<<>>}
    ELSE {<<>>} \cup UNION { { <<v, c>> \o q : q \in Payloads(n - 1, t - c) } :
                              v \in {0, 1}, c \in 1..t }

FileDims == {d \in (1..MaxFileCells) \X (1..MaxFileCells) \X (1..MaxFileCells) :
                Prod(d) <= MaxFileCells}

\* a text file that is no binvox file, and a binvox file cut after its first line
JunkFile == File(<<Line("junk", <<>>)>>, <<>>)
CutFile == File(<<Line("#binvox", <<IntStr(1)>>)>>, <<>>)

\* files to read: a header, and a payload of pairs with or without a last
\* byte that has no count after it
InputFiles ==
    { File(HeaderLines(d, Meta0.translate, Meta0.scale), pl \o odd) :
        d \in FileDims, pl \in Payloads(MaxPairs, MaxFileCells + 1),
        odd \in {<<>>, <<1>>} }
    \cup {JunkFile, CutFile}

\* whether a file holds a binvox header
HasHeader(f) == \E i \in 1..Len(f.lines) : f.lines[i].key = "#binvox"

(***************************************************************************)
(* State: the objects a caller of the module holds.                        *)
(***************************************************************************)
VARIABLES
    m,        \* a Voxels object the caller built, or NoModel
    fp,       \* the file: the sink of write, the source of read
    arg,      \* the model given to write, when the last call is a write
    md,       \* what the last read returned
    ms,       \* what the last read_coords returned
    cl,       \* what the last clone returned
    dense0,   \* the array given to the last dense_to_sparse
    sp,       \* what the last dense_to_sparse returned
    dn,       \* what the last sparse_to_dense returned
    op,       \* the last call
    exc       \* the exception the last call raised, or "none"

vars == <<m, fp, arg, md, ms, cl, dense0, sp, dn, op, exc>>

InitRest ==
    /\ arg = NoModel /\ md = NoModel /\ ms = NoModel
    /\ cl = NoModel /\ dense0 = NoArray /\ sp = NoArray /\ dn = NoArray
    /\ op = "init" /\ exc = "none"

\* a model to write to an empty sink, or a file to read
Init ==
    /\ \/ m \in SmallModels /\ fp = EmptyFile
       \/ m = NoModel /\ fp \in InputFiles
    /\ InitRest

\* the models the caller holds
Held == {v \in {m, md, ms} : IsModel(v)}

\* the results of clone and of the conversions are dropped
NoConv == cl' = NoModel /\ dense0' = NoArray /\ sp' = NoArray /\ dn' = NoArray

\* write(vm, fp); a dense model is written to a sink that holds no binvox
\* file yet
Write ==
    \E vm \in Held :
        /\ Ndim(vm.data) = 3 => ~HasHeader(fp)
        /\ LET r == write(vm, fp)
           IN  fp' = r.fp /\ exc' = r.exc
        /\ arg' = vm
        /\ op' = "write"
        /\ NoConv
        /\ UNCHANGED <<m, md, ms>>

\* sum of the count bytes of the complete pairs of a payload
TotalCount(raw_data) ==
    Sum([k \in 1..(Len(raw_data) \div 2) |-> raw_data[2 * k]])

\* what np.empty(sz) may hold: any value in each cell (the cells the loop
\* overwrites are taken as 0)
EmptyBuffers(f) ==
    LET h == read_header(f)
        sz == IF h.exc = "none" THEN Prod(h.dims) ELSE 0
        t == Min(TotalCount(f.payload), sz)
    IN  { [p \in 1..sz |-> IF p > t THEN g[p] ELSE 0] : g \in [(t + 1)..sz -> {0, 1}] }

\* md = read(fp, fix_coords)
Read ==
    \E fix_coords \in BOOLEAN, empty \in EmptyBuffers(fp) :
        /\ LET r == read(fp, fix_coords, empty)
           IN  md' = r.ret /\ exc' = r.exc
        /\ op' = "read" /\ arg' = NoModel
        /\ NoConv
        /\ UNCHANGED <<m, fp, ms>>

\* ms = read_coords(fp, fix_coords)
ReadCoords ==
    \E fix_coords \in BOOLEAN :
        /\ LET r == read_coords(fp, fix_coords)
           IN  ms' = r.ret /\ exc' = r.exc
        /\ op' = "read_coords" /\ arg' = NoModel
        /\ NoConv
        /\ UNCHANGED <<m, fp, md>>

\* cl = vm.clone()
Clone ==
    \E vm \in Held :
        /\ LET r == clone(vm)
           IN  cl' = r.ret /\ exc' = r.exc
        /\ op' = "clone" /\ arg' = NoModel
        /\ dense0' = NoArray /\ sp' = NoArray /\ dn' = NoArray
        /\ UNCHANGED <<m, fp, md, ms>>

\* sp = dense_to_sparse(vm.data), of the caller's model or of a sparse one
DenseToSparse ==
    \E vm \in Held \ {md} :
        /\ LET r == dense_to_sparse(vm.data)
           IN  sp' = r.ret /\ exc' = r.exc
        /\ dense0' = vm.data
        /\ dn' = NoArray /\ cl' = NoModel
        /\ op' = "dense_to_sparse" /\ arg' = NoModel
        /\ UNCHANGED <<m, fp, md, ms>>

\* the orders of n columns
ColumnOrders ==
    [n \in 0..MaxCells |-> {f \in [1..n -> 1..n] : \A i, j \in 1..n : f[i] = f[j] => i = j}]

\* the 3 x N array a with its columns in the order f
Permuted(a, f) ==
    LET n == a.shape[2]
    IN  NdArray(a.dtype, a.shape,
                [p \in 1..(3 * n) |-> a.flat[((p - 1) \div n) * n + f[((p - 1) % n) + 1]]])

\* after sp = dense_to_sparse(dense0), the caller puts the columns of sp in
\* any order, then dn = sparse_to_dense(sp, dense0.shape)
SparseToDense ==
    /\ op = "dense_to_sparse" /\ IsArray(sp)
    /\ \E f \in ColumnOrders[sp.shape[2]] :
          LET coords == Permuted(sp, f)
              r == sparse_to_dense(coords, dense0.shape, FALSE)
          IN  sp' = coords /\ dn' = r.ret /\ exc' = r.exc
    /\ op' = "sparse_to_dense" /\ arg' = NoModel
    /\ cl' = NoModel
    /\ UNCHANGED <<m, fp, md, ms, dense0>>

Next ==
    \/ Write
    \/ Read
    \/ ReadCoords
    \/ Clone
    \/ DenseToSparse
    \/ SparseToDense

Spec == Init /\ [][Next]_vars

(***************************************************************************)
(* The encoder on long grids: a long model is written and read back.       *)
(***************************************************************************)
InitRle ==
    /\ m \in LongModels /\ fp = EmptyFile
    /\ InitRest

NextRle ==
    \/ Write
    \/ Read

SpecRle == InitRle /\ [][NextRle]_vars

(***************************************************************************)
(* Properties.                                                             *)
(***************************************************************************)
\* the file is the output of write(m, .) on an empty sink, m not empty
Written == IsModel(m) /\ HasHeader(fp) /\ Prod(m.dims) > 0

\* the header is complete, the payload is whole pairs and the counts sum to
\* the number of cells
WellFormed(f) ==
    /\ read_header(f).exc = "none"
    /\ Len(f.payload) % 2 = 0
    /\ TotalCount(f.payload) = Prod(read_header(f).dims)

\* the linear sequence of cells the payload of a well-formed file stands for
Linear(f) ==
    ReadLoop(f.payload, 1, 0, [p \in 1..Prod(read_header(f).dims) |-> 0]).data

\* the indices <<i, j, k>> of the true cells of a 3-dimensional array
TrueCells(a) ==
    {ijk \in (0..(a.shape[1] - 1)) \X (0..(a.shape[2] - 1)) \X (0..(a.shape[3] - 1)) :
        At(a, ijk[1], ijk[2], ijk[3]) # 0}

\* the columns of a 3 x N array
Columns(a) == {Column(a, c) : c \in 1..a.shape[2]}

\* C1: a dense model with data of extents dims, written by write and read
\* back by read with the fix_coords of its axis order, comes back with the
\* same dims, translate, scale and data.
C1_RoundTrip ==
    (op = "read" /\ Written) =>
        /\ IsModel(md)
        /\ md.axis_order = m.axis_order =>
              /\ md.dims = m.dims
              /\ md.translate = m.translate
              /\ md.scale = m.scale
              /\ md.data = m.data

\* C2: after write has encoded a dense grid, the count bytes of the payload
\* sum to dx*dy*dz and each of them lies in 1..255.
C2_RleCounts ==
    (op = "write" /\ exc = "none") =>
        /\ TotalCount(fp.payload) = Prod(arg.dims)
        /\ \A k \in 1..(Len(fp.payload) \div 2) :
              fp.payload[2 * k] >= 1 /\ fp.payload[2 * k] <= 255

\* C3: for a well-formed file, the columns read_coords returns are the
\* indices of the true cells of the array read returns with the same
\* fix_coords.
C3_DenseSparseAgree ==
    (IsModel(md) /\ IsModel(ms) /\ md.axis_order = ms.axis_order /\ WellFormed(fp)) =>
        Columns(ms.data) = TrueCells(md.data)

\* C4: read lays the linear sequence out in extents (dx, dz, dy): without
\* fix_coords the array has extents (dx, dz, dy) and cell [x][z][y] is the
\* element x*dz*dy + z*dy + y; with fix_coords it has extents (dx, dy, dz)
\* and cell [x][y][z] is that element.
C4_DenseLayout ==
    (op = "read" /\ IsModel(md) /\ WellFormed(fp)) =>
        LET dx == md.dims[1]
            dy == md.dims[2]
            dz == md.dims[3]
            lin == Linear(fp)
        IN  IF md.axis_order = "xzy"
            THEN /\ md.data.shape = <<dx, dz, dy>>
                 /\ \A x \in 0..(dx - 1), z \in 0..(dz - 1), y \in 0..(dy - 1) :
                       At(md.data, x, z, y) = lin[x * dz * dy + z * dy + y + 1]
            ELSE /\ md.data.shape = <<dx, dy, dz>>
                 /\ \A x \in 0..(dx - 1), y \in 0..(dy - 1), z \in 0..(dz - 1) :
                       At(md.data, x, y, z) = lin[x * dz * dy + z * dy + y + 1]

\* C5: a write of a model whose data is 2-dimensional raises ValueError and
\* leaves the sink and the models as they were.
C5_SparseWriteFails ==
    [][(op' = "write" /\ Ndim(arg'.data) = 2) =>
          /\ exc' = "ValueError"
          /\ fp' = fp
          /\ <<m', md', ms'>> = <<m, md, ms>>]_vars

C5_Witness ==
    /\ op = "write" /\ IsModel(arg) /\ Ndim(arg.data) = 2
    /\ exc = "ValueError"
    /\ fp.payload # <<>>

\* C6: clone of a model the caller holds returns a model with equal dims,
\* translate, scale, axis_order and data, and raises nothing.
C6_CloneCopies ==
    op = "clone" =>
        /\ exc = "none"
        /\ IsModel(cl)
        /\ \E v \in Held : cl = v

\* C7: sparse_to_dense of the columns dense_to_sparse(D) returns, in any
\* order, with the extents of D, is D.
C7_DenseSparseDense ==
    op = "sparse_to_dense" => (exc = "none" /\ dn = dense0)

C7_Witness ==
    /\ op = "sparse_to_dense" /\ dn = dense0
    /\ sp.shape[2] >= 2
    /\ sp # dense_to_sparse(dense0).ret
    /\ dense0.shape[2] # dense0.shape[3]

\* what the claim says write emits for n cells equal to v
GreedyPairs(v, n) ==
    LET full == n \div 255
        rest == n % 255
        pairs == full + (IF rest # 0 THEN 1 ELSE 0)
    IN  [i \in 1..(2 * pairs) |->
            IF i % 2 = 1 THEN v
            ELSE IF (i \div 2) <= full THEN 255 ELSE rest]

\* the grid of a dense model is n >= 1 cells that are all equal
Uniform(v) == \A p \in 1..Len(v.data.flat) : v.data.flat[p] = v.data.flat[1]

\* C8: for n >= 1 equal cells v, write emits floor(n/255) pairs (v, 255),
\* then (v, n mod 255) when that is not 0, and nothing else; so n = 300
\* gives (1,255), (1,45) and n = 254, 255, 256, 510 give (v,254); (v,255);
\* (v,255), (v,1); (v,255), (v,255).
C8_GreedyFlush ==
    (op = "write" /\ Uniform(arg)) =>
        LET n == Len(arg.data.flat)
            v == arg.data.flat[1]
        IN  /\ exc = "none"
            /\ fp.payload = GreedyPairs(v, n)
            /\ (n = 300 /\ v = 1) => fp.payload = <<1, 255, 1, 45>>
            /\ n = 254 => fp.payload = <<v, 254>>
            /\ n = 255 => fp.payload = <<v, 255>>
            /\ n = 256 => fp.payload = <<v, 255, v, 1>>
            /\ n = 510 => fp.payload = <<v, 255, v, 255>>

C8_Witness ==
    /\ op = "write" /\ Uniform(arg)
    /\ Len(arg.data.flat) = 300 /\ arg.data.flat[1] = 1
    /\ fp.payload = <<1, 255, 1, 45>>

\* C9: write of a dense grid with no cells raises nothing and leaves the
\* header, ending in the data line, and no payload byte in the sink.
C9_EmptyGrid ==
    (op = "write" /\ Ndim(arg.data) = 3 /\ Prod(arg.dims) = 0) =>
        /\ exc = "none"
        /\ fp.payload = <<>>
        /\ fp.lines[Len(fp.lines)].key = "data"

\* the pairs of a payload that assign cell p (1-based)
Assigning(raw_data, p) ==
    {k \in 1..(Len(raw_data) \div 2) :
        LET start == Sum([j \in 1..(k - 1) |-> raw_data[2 * j]])
        IN  start < p /\ p <= start + raw_data[2 * k]}

\* every cell is assigned by exactly one pair, and holds its value
AssignedOnce(f, lin) ==
    \A p \in 1..Len(lin) :
        \E k \in Assigning(f.payload, p) :
            /\ Assigning(f.payload, p) = {k}
            /\ lin[p] = Truth(f.payload[2 * k - 1])

\* the linear sequence behind the array of a model read returned
LinearOf(v) == IF v.axis_order = "xyz" THEN Transpose021(v.data).flat ELSE v.data.flat

\* C10 as stated: read and read_coords return a model only when every cell
\* was assigned by exactly one pair; they fail when the counts do not sum to
\* the number of cells or the payload has an odd number of bytes.
C10_NoPartialSuccess ==
    (op \in {"read", "read_coords"} /\ read_header(fp).exc = "none") =>
        LET ret == IF op = "read" THEN md ELSE ms
        IN  /\ ~WellFormed(fp) => (exc # "none" /\ ret = NoModel)
            /\ (IsModel(ret) /\ op = "read") => AssignedOnce(fp, LinearOf(ret))

\* C10 as the code has it: read and read_coords fail, and return no model,
\* exactly when the header is bad or the payload has an odd number of bytes;
\* the sum of the counts is not checked.  When it is the number of cells,
\* every cell is assigned by exactly one pair; when it is not, a model is
\* returned all the same.
C10_UncheckedCounts ==
    op \in {"read", "read_coords"} =>
        LET ret == IF op = "read" THEN md ELSE ms
            sz == Prod(read_header(fp).dims)
        IN  /\ exc # "none" <=> (read_header(fp).exc # "none" \/ Len(fp.payload) % 2 = 1)
            /\ exc # "none" => ret = NoModel
            /\ exc = "none" => IsModel(ret)
            /\ (exc = "none" /\ WellFormed(fp) /\ op = "read") =>
                  AssignedOnce(fp, LinearOf(ret))
            /\ (exc = "none" /\ WellFormed(fp) /\ op = "read_coords") =>
                  ret.data.shape[2] =
                      Cardinality({p \in 1..sz : \E k \in Assigning(fp.payload, p) :
                                                    fp.payload[2 * k - 1] # 0})

C10_Witness ==
    /\ op = "read" /\ IsModel(md) /\ exc = "none"
    /\ TotalCount(fp.payload) < Prod(md.dims)

====
